---- MODULE Spec2Model ----
(***************************************************************************)
(* State-machine model of src/server/publish.py: the versioned content     *)
(* store, the registry, the patch pipeline and the removal of versions.    *)
(*                                                                         *)
(* One invocation of the program is a run of main(): a publish (scan,      *)
(* patch loop, uploads, commit), a removal of one version, or a full wipe. *)
(* The distributed namespace is the update/<artifact>/ tree that the       *)
(* local-copy upload() writes and that do_remove deletes from; the dry     *)
(* upload() writes nothing.  The staging folders of the archive bundles    *)
(* are created and deleted again inside one invocation and are not state.  *)
(* A file's bytes are identified with their digest.                        *)
(***************************************************************************)
EXTENDS Integers, Sequences, FiniteSets, TLC

\* ------------------------------------------------------------------ bounds
MaxVersions == 5
NumDigests == 2
\* invocations of the program in one behaviour
MaxRuns == 3
\* invocations in one behaviour of the history of a one-file tree
MaxHistoryRuns == 7

\* versions[-3:] of the patch loop
PatchWindow == 3

DigestNames == <<"D1", "D2", "D3", "D4">>
Digests == {DigestNames[i] : i \in 1..NumDigests}
Paths == {"a", "b"}
VersionIds == 1..MaxVersions
\* version=None of a remove request
NoVersion == 0

\* ------------------------------------------------------------ source trees
\* What a scan of the source folder yields after the ignore rules: the
\* files in the order os.listdir gives them, each with the digest of its
\* bytes.
DistinctPaths(t) == \A i, j \in 1..Len(t) : i # j => t[i].path # t[j].path
TreeEntries == [path : Paths, digest : Digests]
Trees ==
    {t \in UNION {[1..n -> TreeEntries] : n \in 0..Cardinality(Paths)} :
        DistinctPaths(t)}

\* --------------------------------------------------------------- registry
EmptyMap == [x \in {} |-> x]
EmptyRegistry == [versions |-> <<>>, files |-> EmptyMap]
NoRegistryFile == [exists |-> FALSE, content |-> EmptyRegistry]

\* Storage.__init__: a missing registry file loads as the empty registry
LoadRegistry(file) == IF file.exists THEN file.content ELSE EmptyRegistry

\* target_rel_path: files/<dir of path>/<file name>.<digest>
TargetRelPath(path, digest) == <<path, digest>>

VersionsOf(reg) == {reg.versions[i].version : i \in 1..Len(reg.versions)}

\* ----------------------------------------------------------------- scan
\* Storage.handle_file on one included file: the registry and the content
\* store after it, and the manifest entry it returns.
\* (mutation of HandleFileIsNew: the files map is not looked up)
HandleFileIsNewAlways(reg, path, digest) == TRUE

HandleFileIsNew(reg, path, digest) ==
    \/ path \notin DOMAIN reg.files
    \/ digest \notin DOMAIN reg.files[path]

HandleFile(reg, store, path, digest) ==
    LET files1 == IF path \in DOMAIN reg.files
                  THEN reg.files
                  ELSE reg.files @@ (path :> EmptyMap)
        is_new == HandleFileIsNew(reg, path, digest)
        target == TargetRelPath(path, digest)
        files2 == IF is_new
                  THEN [files1 EXCEPT ![path] = @ @@ (digest :> target)]
                  ELSE files1
    IN  [reg   |-> [reg EXCEPT !.files = files2],
         store |-> IF is_new THEN store \cup {target} ELSE store,
         entry |-> [is_new |-> is_new, path |-> path, digest |-> digest]]

\* ---------------------------------------------------------- source folder
\* The folder handle_dir walks: the base folder, its subfolders d and e, and
\* the subfolder s of d.  A folder is named by its path from the base.
Dirs == {<<>>, <<"d">>, <<"d", "s">>, <<"e">>}
\* new_dir, the folder given on the command line
SourceFolder == "tree"
\* the lines an .aixignore can hold
IgnoreLines == {"*.txt", "x.txt"}
\* the folders that may hold an .aixignore
IgnoreDirs == {<<>>, <<"d">>}

\* get_version has written the file version into the base folder before
\* the scan
FileChoices(dir) ==
    IF dir = <<>> THEN {{"version"}, {"version", "x.txt"}}
    ELSE {{}, {"x.txt"}}

\* <<>> stands for a folder without .aixignore
IgnoreChoices(dir) ==
    IF dir \in IgnoreDirs THEN {<<>>} \cup {<<l>> : l \in IgnoreLines}
    ELSE {<<>>}

SubDirs(dir) == {n \in {"d", "e", "s"} : Append(dir, n) \in Dirs}

\* what os.listdir finds in a folder
ItemsOf(dir, fs, ignore) ==
    SubDirs(dir) \cup fs \cup (IF ignore = <<>> THEN {} ELSE {".aixignore"})

\* os.listdir gives the items in any order
Listings(items) ==
    {l \in [1..Cardinality(items) -> items] :
        \A i, j \in 1..Cardinality(items) : i # j => l[i] # l[j]}

DirChoices(dir) ==
    UNION {UNION {{[files |-> fs, ignore |-> g, listing |-> l] :
                      l \in Listings(ItemsOf(dir, fs, g))} :
                  g \in IgnoreChoices(dir)} :
           fs \in FileChoices(dir)}

SourceTrees ==
    {[dir \in Dirs |->
        CASE dir = <<>> -> r
          [] dir = <<"d">> -> d
          [] dir = <<"d", "s">> -> s
          [] dir = <<"e">> -> e] :
     r \in DirChoices(<<>>), d \in DirChoices(<<"d">>),
     s \in DirChoices(<<"d", "s">>), e \in DirChoices(<<"e">>)}

\* no source folder: the invocation is given the outcome of the walk
NoSource == [dir \in {} |-> dir]

\* every file of the source folder holds the same bytes
SourceDigest(path) == DigestNames[1]

\* handle_dir: the patterns every walk starts with, as plain strings
DefaultIgnore ==
    [i \in 1..3 |->
        [tuple |-> FALSE, folder |-> <<>>,
         pattern |-> <<"desktop.ini", ".DS_STORE", "*.xpatch">>[i]]]

\* the lines of the .aixignore of a folder, each paired with the folder
IgnoreOf(src, dir) ==
    [i \in 1..Len(src[dir].ignore) |->
        [tuple |-> TRUE, folder |-> dir, pattern |-> src[dir].ignore[i]]]

RECURSIVE CommonPrefix(_, _)
CommonPrefix(p, q) ==
    IF p # <<>> /\ q # <<>> /\ Head(p) = Head(q)
    THEN 1 + CommonPrefix(Tail(p), Tail(q))
    ELSE 0

\* os.path.relpath(path, folder), as the sequence of its components
RelPath(path, folder) ==
    LET c == CommonPrefix(path, folder)
    IN  [i \in 1..(Len(folder) - c) |-> ".."] \o SubSeq(path, c + 1, Len(path))

\* the extension a file name ends with
Ext(name) == IF name = "x.txt" THEN ".txt" ELSE ""

\* the extension a pattern *<ext> asks for, "" for a pattern without *
PatternExt(pattern) ==
    CASE pattern = "*.txt" -> ".txt"
      [] pattern = "*.xpatch" -> ".xpatch"
      [] OTHER -> ""

\* fnmatch.fnmatch on the whole relative path: * matches any characters,
\* the / between components included
FnMatch(rel, pattern) ==
    IF PatternExt(pattern) # ""
    THEN Ext(rel[Len(rel)]) = PatternExt(pattern)
    ELSE rel = <<pattern>>

\* the loop of handle_file over ignore_patterns: a plain pattern is matched
\* against the path as given, a pair against the path from its folder
Ignored(path, ignore_patterns) ==
    \E i \in 1..Len(ignore_patterns) :
        LET ip == ignore_patterns[i]
            relative_path == IF ip.tuple THEN RelPath(path, ip.folder)
                             ELSE <<SourceFolder>> \o path
        IN  FnMatch(relative_path, ip.pattern)

\* _handle_dir: st holds the one list ignore_patterns that every call
\* extends and hands on, the registry, the content store and the entries
\* collected so far
RECURSIVE HandleDirFrom(_, _, _, _)
RECURSIVE WalkDir(_, _, _)
HandleDirFrom(src, dir, i, st) ==
    IF i > Len(src[dir].listing) THEN st
    ELSE LET full_path == Append(dir, src[dir].listing[i])
         IN  IF full_path \in Dirs
             THEN HandleDirFrom(src, dir, i + 1, WalkDir(src, full_path, st))
             ELSE IF Ignored(full_path, st.ignore_patterns)
             THEN HandleDirFrom(src, dir, i + 1, st)
             ELSE LET h == HandleFile(st.reg, st.store, full_path,
                                      SourceDigest(full_path))
                  IN  HandleDirFrom(src, dir, i + 1,
                        [st EXCEPT !.reg = h.reg, !.store = h.store,
                                   !.files = Append(@, h.entry)])

WalkDir(src, dir, st) ==
    HandleDirFrom(src, dir, 1,
        [st EXCEPT !.ignore_patterns = @ \o IgnoreOf(src, dir)])

\* handle_dir(new_dir)
HandleDir(src, reg, store) ==
    WalkDir(src, <<>>,
        [ignore_patterns |-> DefaultIgnore, reg |-> reg, store |-> store,
         files |-> <<>>])

\* --------------------------------------------------------------- removal
Without(f, k) == [x \in DOMAIN f \ {k} |-> f[x]]

\* the loop of do_remove: the first record whose version is the one asked
MatchIndex(versions, version) ==
    IF \E i \in 1..Len(versions) : versions[i].version = version
    THEN CHOOSE i \in 1..Len(versions) :
            /\ versions[i].version = version
            /\ \A j \in 1..(i - 1) : versions[j].version # version
    ELSE 0

\* (mutation of IsLatest: the record is compared with versions[0])
IsLatestOfFirst(versions, k) == versions[k] = versions[1]

\* old_version != versions[-1] is False: the record found is the head
IsLatest(versions, k) == versions[k] = versions[Len(versions)]

\* (mutation of RemoveAt: the first record of the list is taken out)
RemoveAtFirst(versions, k) == Tail(versions)

\* list.remove(old_version), old_version being the record at index k
RemoveAt(versions, k) ==
    SubSeq(versions, 1, k - 1) \o SubSeq(versions, k + 1, Len(versions))

\* set of the digests of the record before the removed one
PrevVersionFiles(prev) == {prev.files[i].digest : i \in 1..Len(prev.files)}

IsChanged(e, prev_version_files) == e.digest \notin prev_version_files

\* changed_files: the entries of the removed record treated as introduced
\* by it
ChangedFiles(old, prev_version_files) ==
    SelectSeq(old.files, LAMBDA e : IsChanged(e, prev_version_files))

\* the glob *_<new_digest>.xpatch runs once, after the loop over the
\* entries, with new_digest left at the digest of the last entry
GlobbedPatches(distPatch, old) ==
    {p \in distPatch : p[2] = old.files[Len(old.files)].digest}

\* the loop over changed_files that edits storage_registry["files"];
\* ok is FALSE when files[new_path] raises KeyError
RECURSIVE RemoveChanged(_, _)
RemoveChanged(files, changed) ==
    IF changed = <<>>
    THEN [ok |-> TRUE, files |-> files]
    ELSE LET c == Head(changed)
         IN  IF c.path \notin DOMAIN files
             THEN [ok |-> FALSE, files |-> files]
             ELSE LET f == Without(files[c.path], c.digest)
                      drop == \/ Cardinality(DOMAIN f) = 0
                              \/ /\ Cardinality(DOMAIN f) = 1
                                 /\ "latest" \in DOMAIN f
                      files1 == IF drop
                                THEN Without(files, c.path)
                                ELSE [files EXCEPT ![c.path] = f]
                  IN  RemoveChanged(files1, Tail(changed))

\* Storage.do_remove(version) with version given and the prompt passed:
\* the outcome, the registry in memory and the distributed namespace
\* (files, patches, manifests) after it.
DoRemove(reg, dFiles, dPatch, dManifest, version) ==
    LET vs == reg.versions
        k == MatchIndex(vs, version)
        same == [outcome |-> "ok", reg |-> reg, distFiles |-> dFiles,
                 distPatch |-> dPatch, distManifest |-> dManifest]
    IN  IF k = 0 THEN same
        ELSE IF ~IsLatest(vs, k) THEN [same EXCEPT !.outcome = "exit"]
        ELSE
        LET old == vs[k]
            reg1 == [reg EXCEPT !.versions = RemoveAt(vs, k)]
        IN  IF k = 1
            THEN \* prev_version is None: prev_version["files"]
                 [same EXCEPT !.outcome = "TypeError", !.reg = reg1]
            ELSE
            LET pvf == PrevVersionFiles(vs[k - 1])
                dManifest1 == Without(dManifest, version)
                changed == ChangedFiles(old, pvf)
                dFiles1 == dFiles \ {changed[i].digest : i \in 1..Len(changed)}
            IN  IF old.files = <<>>
                THEN \* new_digest was never bound
                     [outcome |-> "UnboundLocalError", reg |-> reg1,
                      distFiles |-> dFiles1, distPatch |-> dPatch,
                      distManifest |-> dManifest1]
                ELSE
                LET dPatch1 == dPatch \ GlobbedPatches(dPatch, old)
                    rc == RemoveChanged(reg.files, changed)
                IN  [outcome |-> IF rc.ok THEN "ok" ELSE "KeyError",
                     reg |-> [reg1 EXCEPT !.files = rc.files],
                     distFiles |-> dFiles1, distPatch |-> dPatch1,
                     distManifest |-> dManifest1]

\* ------------------------------------------------------------ patch loop
\* (mutation of PrevWindow: the loop runs over every record)
PrevWindowAll(versions) == versions

\* storage_registry["versions"][-3:]
PrevWindow(versions) ==
    SubSeq(versions,
           IF Len(versions) > PatchWindow
           THEN Len(versions) - PatchWindow + 1 ELSE 1,
           Len(versions))

\* a patch is computed for a new entry against an entry of a previous
\* record with the same path and another digest
NeedsPatch(new, old) ==
    new.is_new /\ new.path = old.path /\ new.digest # old.digest

\* the patches computed against one previous record, in loop order
JobsAgainst(prev, files) ==
    LET n == Len(files)
        m == Len(prev.files)
        pairs == [k \in 1..(n * m) |->
                    <<((k - 1) \div m) + 1, ((k - 1) % m) + 1>>]
        sel == SelectSeq(pairs,
                 LAMBDA pr : NeedsPatch(files[pr[1]], prev.files[pr[2]]))
    IN  [k \in 1..Len(sel) |->
            LET new == files[sel[k][1]]
                old == prev.files[sel[k][2]]
            IN  [prev_version |-> prev.version,
                 old_digest |-> old.digest,
                 new_digest |-> new.digest,
                 from |-> TargetRelPath(old.path, old.digest),
                 to |-> TargetRelPath(new.path, new.digest)]]

RECURSIVE JobsFrom(_, _, _)
JobsFrom(window, files, i) ==
    IF i > Len(window) THEN <<>>
    ELSE JobsAgainst(window[i], files) \o JobsFrom(window, files, i + 1)

\* every patch the loop of main computes, in order
PatchJobs(versions, files) == JobsFrom(PrevWindow(versions), files, 1)

\* file_diff reads both blobs from the content store
CanDiff(store, job) == job.from \in store /\ job.to \in store

\* the body of the manifest: one line <path> TAB <digest> per entry
ManifestLines(files) ==
    [i \in 1..Len(files) |-> <<files[i].path, files[i].digest>>]

\* ------------------------------------------------------------------ state
VARIABLES
    registryFile,      \* registry-<artifact>.json
    storeFiles,        \* storage-<artifact>/files/...
    storePatches,      \* storage-<artifact>/patches/<old>_<new>.xpatch
    distFiles,         \* update/<artifact>/files/<digest>
    distPatch,         \* update/<artifact>/patch/<old>_<new>.xpatch
    distManifest,      \* update/<artifact>/manifest/<version>
    distLatest,        \* update/<artifact>/latest
    pc,                \* where the running invocation of main stands
    args,              \* the arguments of the running invocation
    storage_registry,  \* Storage.storage_registry, in memory
    files,             \* the manifest entries collected by the scan
    idx,               \* position in the loop the invocation is in
    outcome,           \* how the invocation ended
    saves,             \* calls of Storage.save in the invocation
    start,             \* the files as the invocation found them
    runs,              \* invocations started so far
    clean,             \* every invocation so far was a publish or a
                       \* removal of one version that ran to its end
    history,           \* "commits": every invocation so far was a
                       \* publish, not dry, of a version the registry did
                       \* not hold, that ran to its end; "publishes": each
                       \* was a publish of such a version; "any" otherwise
    generated,         \* the patches the invocation has generated
    source             \* the source folder handle_dir walks

vars == <<registryFile, storeFiles, storePatches, distFiles, distPatch,
          distManifest, distLatest, pc, args, storage_registry, files, idx,
          outcome, saves, start, runs, clean, history, generated, source>>

disk == <<registryFile, storeFiles, storePatches, distFiles, distPatch,
          distManifest, distLatest>>
dist == <<distFiles, distPatch, distManifest, distLatest>>
store == <<storeFiles, storePatches>>

NoArgs == [op |-> "none", version |-> NoVersion, tree |-> <<>>,
           dry |-> FALSE]

Snapshot ==
    [registry |-> LoadRegistry(registryFile), registryFile |-> registryFile,
     storeFiles |-> storeFiles, storePatches |-> storePatches,
     distFiles |-> distFiles, distPatch |-> distPatch,
     distManifest |-> distManifest, distLatest |-> distLatest]

NoSnapshot ==
    [registry |-> EmptyRegistry, registryFile |-> NoRegistryFile,
     storeFiles |-> {}, storePatches |-> {},
     distFiles |-> {}, distPatch |-> {},
     distManifest |-> EmptyMap, distLatest |-> NoVersion]

\* the state before the first invocation, whatever the source folder holds
InitState ==
    /\ registryFile = NoRegistryFile
    /\ storeFiles = {}
    /\ storePatches = {}
    /\ distFiles = {}
    /\ distPatch = {}
    /\ distManifest = EmptyMap
    /\ distLatest = NoVersion
    /\ pc = "idle"
    /\ args = NoArgs
    /\ storage_registry = EmptyRegistry
    /\ files = <<>>
    /\ idx = 0
    /\ outcome = "none"
    /\ saves = 0
    /\ start = NoSnapshot
    /\ runs = 0
    /\ clean = TRUE
    /\ history = "commits"
    /\ generated = {}

Init ==
    /\ InitState
    /\ source = NoSource

\* the versions a request names: one of the registry, or the next new one
RequestVersions ==
    LET reg == LoadRegistry(registryFile)
    IN  (VersionsOf(reg) \cup {Len(reg.versions) + 1}) \cap VersionIds

\* the invocation ends: exception, sys.exit or the end of main
End(how) ==
    /\ pc' = "done"
    /\ outcome' = how
    /\ clean' = (clean /\ how = "ok" /\ ~args.dry /\ args.version # NoVersion)
    /\ history' =
          IF args.op = "publish"
                /\ args.version \notin VersionsOf(start.registry)
                /\ history # "any"
          THEN IF history = "commits" /\ how = "ok" /\ ~args.dry
               THEN "commits" ELSE "publishes"
          ELSE "any"

\* the invocation goes on
Goto(label) ==
    /\ pc' = label
    /\ UNCHANGED <<outcome, clean, history>>

\* ---------------------------------------------------------------- publish
\* main(): Storage(...) loads the registry; upload is chosen by --dry
StartPublish(version, tree, dry) ==
    /\ pc = "idle"
    /\ pc' = "check"
    /\ args' = [op |-> "publish", version |-> version, tree |-> tree,
                dry |-> dry]
    /\ storage_registry' = LoadRegistry(registryFile)
    /\ start' = Snapshot
    /\ files' = <<>>
    /\ idx' = 1
    /\ saves' = 0
    /\ outcome' = "none"
    /\ runs' = runs + 1
    /\ generated' = {}
    /\ UNCHANGED <<disk, clean, history, source>>

\* for old_version in versions: if old_version["version"] == version:
\*     storage.do_remove(version, force=y)
CheckNew ==
    /\ pc = "check"
    /\ args.version \notin VersionsOf(storage_registry)
    /\ Goto("scan")
    /\ UNCHANGED <<disk, args, storage_registry, files, idx, saves, start,
                   runs, generated, source>>

\* not force, and the prompt of do_remove answered no: sys.exit(-1)
CheckDeclined ==
    /\ pc = "check"
    /\ args.version \in VersionsOf(storage_registry)
    /\ End("declined")
    /\ UNCHANGED <<disk, args, storage_registry, files, idx, saves, start,
                   runs, generated, source>>

CheckRemove ==
    /\ pc = "check"
    /\ args.version \in VersionsOf(storage_registry)
    /\ LET r == DoRemove(storage_registry, distFiles, distPatch,
                         distManifest, args.version)
       IN  /\ storage_registry' = r.reg
           /\ distFiles' = r.distFiles
           /\ distPatch' = r.distPatch
           /\ distManifest' = r.distManifest
           /\ IF r.outcome = "ok" THEN Goto("scan") ELSE End(r.outcome)
    /\ UNCHANGED <<registryFile, store, distLatest, args, files, idx, saves,
                   start, runs, generated, source>>

\* handle_dir: one file of the tree handled
ScanFile ==
    /\ pc = "scan"
    /\ idx <= Len(args.tree)
    /\ LET h == HandleFile(storage_registry, storeFiles,
                           args.tree[idx].path, args.tree[idx].digest)
       IN  /\ storage_registry' = h.reg
           /\ storeFiles' = h.store
           /\ files' = Append(files, h.entry)
    /\ idx' = idx + 1
    /\ Goto("scan")
    /\ UNCHANGED <<registryFile, storePatches, dist, args, saves, start,
                   runs, generated, source>>

\* files = storage.handle_dir(new_dir), on a source folder
ScanSource ==
    /\ pc = "scan"
    /\ source # NoSource
    /\ LET st == HandleDir(source, storage_registry, storeFiles)
       IN  /\ storage_registry' = st.reg
           /\ storeFiles' = st.store
           /\ files' = st.files
    /\ idx' = 1
    /\ Goto("patch")
    /\ UNCHANGED <<registryFile, storePatches, dist, args, saves, start,
                   runs, generated, source>>

ScanDone ==
    /\ pc = "scan"
    /\ idx > Len(args.tree)
    /\ idx' = 1
    /\ Goto("patch")
    /\ UNCHANGED <<disk, args, storage_registry, files, saves, start,
                   runs, generated, source>>

\* generate_patch and the upload of the patch, for one patch of the loop
PatchOne ==
    /\ pc = "patch"
    /\ LET jobs == PatchJobs(storage_registry.versions, files)
       IN  /\ idx <= Len(jobs)
           /\ IF CanDiff(storeFiles, jobs[idx])
              THEN /\ storePatches' = storePatches \cup
                        {<<jobs[idx].old_digest, jobs[idx].new_digest>>}
                   /\ distPatch' = IF args.dry THEN distPatch
                        ELSE distPatch \cup
                          {<<jobs[idx].old_digest, jobs[idx].new_digest>>}
                   /\ generated' = generated \cup
                        {[prev_version |-> jobs[idx].prev_version,
                          path |-> jobs[idx].to[1],
                          old_digest |-> jobs[idx].old_digest,
                          new_digest |-> jobs[idx].new_digest]}
                   /\ idx' = idx + 1
                   /\ Goto("patch")
              ELSE /\ End("FileNotFoundError")
                   /\ UNCHANGED <<storePatches, distPatch, idx, generated>>
    /\ UNCHANGED <<registryFile, storeFiles, distFiles, distManifest,
                   distLatest, args, storage_registry, files, saves, start,
                   runs, source>>

PatchDone ==
    /\ pc = "patch"
    /\ idx > Len(PatchJobs(storage_registry.versions, files))
    /\ idx' = 1
    /\ Goto("blobs")
    /\ UNCHANGED <<disk, args, storage_registry, files, saves, start,
                   runs, generated, source>>

\* the upload loop over the entries: a new entry's blob is uploaded
UploadFile ==
    /\ pc = "blobs"
    /\ idx <= Len(files)
    /\ distFiles' = IF files[idx].is_new /\ ~args.dry
                    THEN distFiles \cup {files[idx].digest}
                    ELSE distFiles
    /\ idx' = idx + 1
    /\ Goto("blobs")
    /\ UNCHANGED <<registryFile, store, distPatch, distManifest, distLatest,
                   args, storage_registry, files, saves, start,
                   runs, generated, source>>

\* (mutation of UploadDone: the manifest is not uploaded)
UploadDoneToLatest ==
    /\ pc = "blobs"
    /\ idx > Len(files)
    /\ Goto("latest")
    /\ UNCHANGED <<disk, args, storage_registry, files, idx, saves, start,
                   runs, generated, source>>

UploadDone ==
    /\ pc = "blobs"
    /\ idx > Len(files)
    /\ Goto("manifest")
    /\ UNCHANGED <<disk, args, storage_registry, files, idx, saves, start,
                   runs, generated, source>>

\* (mutation of UploadManifest: the registry is saved with the manifest,
\* before the latest pointer is uploaded)
UploadManifestAndSave ==
    /\ pc = "manifest"
    /\ distManifest' =
          IF args.dry THEN distManifest
          ELSE (args.version :> ManifestLines(files)) @@ distManifest
    /\ registryFile' =
          IF args.dry THEN registryFile
          ELSE [exists |-> TRUE, content |-> storage_registry]
    /\ saves' = IF args.dry THEN saves ELSE saves + 1
    /\ Goto("latest")
    /\ UNCHANGED <<store, distFiles, distPatch, distLatest, args,
                   storage_registry, files, idx, start,
                   runs, generated, source>>

UploadManifest ==
    /\ pc = "manifest"
    /\ distManifest' =
          IF args.dry THEN distManifest
          ELSE (args.version :> ManifestLines(files)) @@ distManifest
    /\ Goto("latest")
    /\ UNCHANGED <<registryFile, store, distFiles, distPatch, distLatest,
                   args, storage_registry, files, idx, saves, start,
                   runs, generated, source>>

\* versions.append(...) and then upload(".../latest", version)
AppendAndLatest ==
    /\ pc = "latest"
    /\ storage_registry' =
          [storage_registry EXCEPT !.versions =
              Append(@, [version |-> args.version, files |-> files])]
    /\ distLatest' = IF args.dry THEN distLatest ELSE args.version
    /\ Goto("save")
    /\ UNCHANGED <<registryFile, store, distFiles, distPatch, distManifest,
                   args, files, idx, saves, start, runs, generated, source>>

\* (mutation of Commit: the registry is saved in a dry run too)
CommitAlways ==
    /\ pc = "save"
    /\ registryFile' = [exists |-> TRUE, content |-> storage_registry]
    /\ saves' = saves + 1
    /\ End("ok")
    /\ UNCHANGED <<store, dist, args, storage_registry, files, idx, start,
                   runs, generated, source>>

\* if not dry: storage.save()
Commit ==
    /\ pc = "save"
    /\ registryFile' =
          IF args.dry THEN registryFile
          ELSE [exists |-> TRUE, content |-> storage_registry]
    /\ saves' = IF args.dry THEN saves ELSE saves + 1
    /\ End("ok")
    /\ UNCHANGED <<store, dist, args, storage_registry, files, idx, start,
                   runs, generated, source>>

\* where an exception can end a publish: reading or copying a file of the
\* tree, generating a patch, an upload (the dry upload only prints)
CanFail ==
    \/ pc = "scan" /\ idx <= Len(args.tree)
    \/ pc = "patch"
    \/ pc \in {"blobs", "manifest", "latest"} /\ ~args.dry

Fail ==
    /\ CanFail
    /\ End("IOError")
    /\ UNCHANGED <<disk, args, storage_registry, files, idx, saves, start,
                   runs, generated, source>>

\* ----------------------------------------------------------------- remove
\* main() with --remove: version is None for a full wipe
StartRemove(version) ==
    /\ pc = "idle"
    /\ pc' = "remove"
    /\ args' = [op |-> "remove", version |-> version, tree |-> <<>>,
                dry |-> FALSE]
    /\ storage_registry' = LoadRegistry(registryFile)
    /\ start' = Snapshot
    /\ files' = <<>>
    /\ idx' = 1
    /\ saves' = 0
    /\ outcome' = "none"
    /\ runs' = runs + 1
    /\ generated' = {}
    /\ UNCHANGED <<disk, clean, history, source>>

\* not force, and the prompt of do_remove answered no: sys.exit(-1)
RemoveDeclined ==
    /\ pc = "remove"
    /\ End("declined")
    /\ UNCHANGED <<disk, args, storage_registry, files, idx, saves, start,
                   runs, generated, source>>

\* do_remove(None): the registry file, the storage folder and the update
\* folder are deleted; storage_registry is left as loaded
Wipe ==
    /\ pc = "remove"
    /\ args.version = NoVersion
    /\ registryFile' = NoRegistryFile
    /\ storeFiles' = {}
    /\ storePatches' = {}
    /\ distFiles' = {}
    /\ distPatch' = {}
    /\ distManifest' = EmptyMap
    /\ distLatest' = NoVersion
    /\ Goto("rsave")
    /\ UNCHANGED <<args, storage_registry, files, idx, saves, start,
                   runs, generated, source>>

RemoveVersion ==
    /\ pc = "remove"
    /\ args.version # NoVersion
    /\ LET r == DoRemove(storage_registry, distFiles, distPatch,
                         distManifest, args.version)
       IN  /\ storage_registry' = r.reg
           /\ distFiles' = r.distFiles
           /\ distPatch' = r.distPatch
           /\ distManifest' = r.distManifest
           /\ IF r.outcome = "ok" THEN Goto("rsave") ELSE End(r.outcome)
    /\ UNCHANGED <<registryFile, store, distLatest, args, files, idx, saves,
                   start, runs, generated, source>>

\* storage.save() and sys.exit(0) after do_remove
RemoveSave ==
    /\ pc = "rsave"
    /\ registryFile' = [exists |-> TRUE, content |-> storage_registry]
    /\ saves' = saves + 1
    /\ End("ok")
    /\ UNCHANGED <<store, dist, args, storage_registry, files, idx, start,
                   runs, generated, source>>

\* the process is gone; the next invocation starts from the files
Exit ==
    /\ pc = "done"
    /\ pc' = "idle"
    /\ args' = NoArgs
    /\ storage_registry' = EmptyRegistry
    /\ files' = <<>>
    /\ idx' = 0
    /\ outcome' = "none"
    /\ saves' = 0
    /\ start' = NoSnapshot
    /\ generated' = {}
    /\ UNCHANGED <<disk, runs, clean, history, source>>

\* the steps of a running invocation
Step ==
    \/ CheckNew
    \/ CheckDeclined
    \/ CheckRemove
    \/ ScanFile
    \/ ScanDone
    \/ PatchOne
    \/ PatchDone
    \/ UploadFile
    \/ UploadDone
    \/ UploadManifest
    \/ AppendAndLatest
    \/ Commit
    \/ RemoveDeclined
    \/ RemoveVersion
    \/ RemoveSave
    \/ Exit

\* ------------------------------------------------------- specifications
\* Every request on trees of two files, failures and dry runs included.
Publish ==
    /\ runs < MaxRuns
    /\ \E version \in RequestVersions, tree \in Trees, dry \in BOOLEAN :
          StartPublish(version, tree, dry)

Remove ==
    /\ runs < MaxRuns
    /\ \E version \in RequestVersions \cup {NoVersion} :
          StartRemove(version)

Next ==
    \/ Publish
    \/ Remove
    \/ Step
    \/ Fail
    \/ Wipe

Spec == Init /\ [][Next]_vars

\* Longer histories of a tree that holds the one file "a": publishes and
\* removals of one version, none interrupted from outside.
OneFileTrees ==
    {t \in Trees : \A i \in 1..Len(t) : t[i].path = "a"}

PublishOneFile ==
    /\ runs < MaxHistoryRuns
    /\ \E version \in RequestVersions, tree \in OneFileTrees :
          StartPublish(version, tree, FALSE)

RemoveOneVersion ==
    /\ runs < MaxHistoryRuns
    /\ \E version \in RequestVersions : StartRemove(version)

NextHistory ==
    \/ PublishOneFile
    \/ RemoveOneVersion
    \/ Step

SpecHistory == Init /\ [][NextHistory]_vars

\* Publishes of one new version after the other, each of a tree of at most
\* one file, none interrupted: the registry grows to MaxVersions records.
SingleFileTrees == {t \in Trees : Len(t) <= 1}

PublishNext ==
    /\ runs < MaxVersions
    /\ \E tree \in SingleFileTrees :
          StartPublish(Len(LoadRegistry(registryFile).versions) + 1, tree,
                       FALSE)

NextWindow ==
    \/ PublishNext
    \/ CheckNew
    \/ ScanFile
    \/ ScanDone
    \/ PatchOne
    \/ PatchDone
    \/ UploadFile
    \/ UploadDone
    \/ UploadManifest
    \/ AppendAndLatest
    \/ Commit
    \/ Exit

SpecWindow == Init /\ [][NextWindow]_vars

\* The first publish of a source folder, up to the end of its scan.
InitScan ==
    /\ InitState
    /\ source \in SourceTrees

PublishSource ==
    /\ runs = 0
    /\ StartPublish(1, <<>>, FALSE)

NextScan ==
    \/ PublishSource
    \/ CheckNew
    \/ ScanSource

SpecScan == InitScan /\ [][NextScan]_vars

\* ------------------------------------------------------------- properties
\* the registry a run started now would load
Persisted == LoadRegistry(registryFile)

HeadOf(reg) == reg.versions[Len(reg.versions)]

DigestsAt(fs, path) == IF path \in DOMAIN fs THEN DOMAIN fs[path] ELSE {}

InRecord(rec, path, digest) ==
    \E i \in 1..Len(rec.files) :
        rec.files[i].path = path /\ rec.files[i].digest = digest

Entries(rec) == {rec.files[i] : i \in 1..Len(rec.files)}

\* a remove request, its prompt passed, has ended
RemoveEnded ==
    pc = "done" /\ args.op = "remove" /\ outcome # "declined"

\* the version asked names a record below the head of the loaded registry
NamesNonHead ==
    \E i \in 1..(Len(start.registry.versions) - 1) :
        start.registry.versions[i].version = args.version

\* the version asked is the head of the loaded registry, which holds at
\* least n records
NamesHeadOf(n) ==
    /\ Len(start.registry.versions) >= n
    /\ Len(start.registry.versions) >= 1
    /\ HeadOf(start.registry).version = args.version

DistUnchanged ==
    /\ distFiles = start.distFiles
    /\ distPatch = start.distPatch
    /\ distManifest = start.distManifest
    /\ distLatest = start.distLatest

\* the removed head, the record before it, and the entries of the head that
\* the record before it does not hold under the same path
Removed == HeadOf(start.registry)
Prior == start.registry.versions[Len(start.registry.versions) - 1]
Introduced == {e \in Entries(Removed) : ~InRecord(Prior, e.path, e.digest)}

\* a removal of the head, a record before it, has run to its end
HeadRemoved == RemoveEnded /\ NamesHeadOf(2) /\ outcome = "ok"

\* C1: a remove request that names a record below the head fails, and the
\* registry (in memory and in its file) and the distributed namespace are
\* as the request found them.
C1_HeadOnlyRemoval ==
    (pc = "done" /\ args.op = "remove" /\ NamesNonHead) =>
        /\ outcome \in {"exit", "declined"}
        /\ registryFile = start.registryFile
        /\ storage_registry = start.registry
        /\ DistUnchanged

C1_Witness == RemoveEnded /\ NamesNonHead /\ outcome = "exit"

\* C2: removing the head when it is the only record succeeds: the saved
\* registry has no version left and no key in files for a path of the
\* removed record.  Stated for a record of at least one entry.
C2_RemoveOnlyRecord ==
    (/\ RemoveEnded
     /\ NamesHeadOf(1)
     /\ Len(start.registry.versions) = 1
     /\ Removed.files # <<>>) =>
        /\ outcome = "ok"
        /\ Persisted.versions = <<>>
        /\ \A e \in Entries(Removed) : e.path \notin DOMAIN Persisted.files

\* C3: on a registry of at least two records, removing the head ends
\* without error and the saved versions are the former ones without the
\* last.  Stated for a head of at least one entry.
C3_SafeRollback ==
    (RemoveEnded /\ NamesHeadOf(2) /\ Removed.files # <<>>) =>
        /\ outcome = "ok"
        /\ Persisted.versions =
             SubSeq(start.registry.versions, 1,
                    Len(start.registry.versions) - 1)

\* C4: after the head is removed, the digest of an entry of the removed
\* record is out of files[path] exactly when the record before it has no
\* entry with that path and that digest.
C4_PriorSetPerPath ==
    HeadRemoved =>
        \A e \in Entries(Removed) :
            (e.digest \notin DigestsAt(Persisted.files, e.path))
                <=> ~InRecord(Prior, e.path, e.digest)

\* C5: after publishes and removals of the head that all ran to their end,
\* every entry of every record of the registry has its digest in
\* files[path] and its blob in the distributed namespace.
C5_ReferentialConsistency ==
    (pc \in {"idle", "done"} /\ clean) =>
        \A i \in 1..Len(Persisted.versions) :
            \A e \in Entries(Persisted.versions[i]) :
                /\ e.digest \in DigestsAt(Persisted.files, e.path)
                /\ e.digest \in distFiles

\* C6: after the head is removed, no patch remains whose target is a digest
\* the removed record introduced, and every patch deleted had such a
\* target, not one the record before still holds.
C6_PatchesOfIntroducedDeleted ==
    HeadRemoved =>
        /\ \A p \in distPatch :
              p[2] \notin {e.digest : e \in Introduced}
        /\ \A p \in start.distPatch \ distPatch :
              /\ p[2] \in {e.digest : e \in Introduced}
              /\ p[2] \notin PrevVersionFiles(Prior)

\* C7: after the head is removed, the blob of every entry it introduced is
\* neither in the content store nor in the distributed namespace, the head
\* of the registry is the record before, and files[path] no longer holds
\* the digest.
C7_RemovalDeletesBlobs ==
    HeadRemoved =>
        /\ \A e \in Introduced :
              /\ TargetRelPath(e.path, e.digest) \notin storeFiles
              /\ e.digest \notin distFiles
              /\ e.digest \notin DigestsAt(Persisted.files, e.path)
        /\ Persisted.versions # <<>>
        /\ HeadOf(Persisted) = Prior

\* C8: a remove request without a version, its prompt passed, ends with an
\* empty registry saved (a later run loads no version and no file) and with
\* the content store and the distributed namespace cleared.
C8_FullWipe ==
    (RemoveEnded /\ args.version = NoVersion) =>
        /\ outcome = "ok"
        /\ Persisted = EmptyRegistry
        /\ storeFiles = {} /\ storePatches = {}
        /\ distFiles = {} /\ distPatch = {}
        /\ distManifest = EmptyMap /\ distLatest = NoVersion

\* the head of the registry has its manifest and the blob of every digest
\* of its manifest in the distributed namespace
FullyDistributed(reg, manifests, blobs) ==
    reg.versions # <<>> =>
        /\ HeadOf(reg).version \in DOMAIN manifests
        /\ \A e \in Entries(HeadOf(reg)) : e.digest \in blobs

\* C9: at the end of an invocation, ended by an error or not, the head of
\* the saved registry is fully distributed.  Stated for the publishes that
\* found it so when they started, on a head of at least one entry.
C9_HeadFullyDistributed ==
    (/\ pc = "done"
     /\ args.op = "publish"
     /\ start.registry.versions # <<>>
     /\ HeadOf(start.registry).files # <<>>
     /\ FullyDistributed(start.registry, start.distManifest, start.distFiles))
        => FullyDistributed(Persisted, distManifest, distFiles)

\* C10: a publish that does not run to its end saves nothing, the registry
\* file is the one it loaded; and no invocation saves the registry twice.
C10_NoCommitOnFailure ==
    pc = "done" =>
        /\ saves <= 1
        /\ (args.op = "publish" /\ outcome # "ok") =>
              (saves = 0 /\ registryFile = start.registryFile)

C10_Witness ==
    /\ pc = "done"
    /\ args.op = "publish"
    /\ outcome = "IOError"
    /\ distFiles # start.distFiles
    /\ start.registry.versions # <<>>

\* the entries the scan of the source folder returned
Scanned == pc = "patch" /\ source # NoSource
ManifestPaths == {files[i].path : i \in 1..Len(files)}
SourceFiles ==
    UNION {{Append(dir, source[dir].listing[i]) :
               i \in 1..Len(source[dir].listing)} : dir \in Dirs} \ Dirs

\* a line of the .aixignore of the file's folder, or of a folder above it,
\* matches the file's path from that folder
IgnoredFromAbove(path) ==
    \E k \in 0..(Len(path) - 1) :
        LET above == SubSeq(path, 1, k)
        IN  \E i \in 1..Len(source[above].ignore) :
                FnMatch(SubSeq(path, k + 1, Len(path)),
                        source[above].ignore[i])

\* C15: a file of the source folder is left out of the manifest exactly
\* when a pattern of the .aixignore of its own folder or of a folder above
\* it matches it; a pattern of folder D leaves out no file of a sibling of D
\* or of D's parent.
C15_IgnoreInheritance ==
    Scanned =>
        \A path \in SourceFiles :
            (path \notin ManifestPaths) <=> IgnoredFromAbove(path)

\* a publish has ended
PublishEnded == pc = "done" /\ args.op = "publish"

\* the version asked is the one of the head of the loaded registry
RepublishesHead ==
    /\ start.registry.versions # <<>>
    /\ HeadOf(start.registry).version = args.version

\* C11: a dry run of a publish never saves the registry: at every point of
\* it, and at its end, the registry file is the one it found, also when the
\* version asked is one the registry holds.
C11_DryNeverCommits ==
    (args.op = "publish" /\ args.dry) =>
        /\ saves = 0
        /\ registryFile = start.registryFile

C11_Witness ==
    /\ PublishEnded
    /\ args.dry
    /\ outcome = "ok"
    /\ RepublishesHead
    /\ storage_registry # start.registry

\* C12: a dry run of a publish leaves the blobs, the patches, the manifests
\* and the latest pointer of the distributed namespace as it found them,
\* also when the version asked is the one of the head.  Stated for the dry
\* runs that end without error.
C12_DryNoDistEffect ==
    (PublishEnded /\ args.dry /\ outcome = "ok") => DistUnchanged

\* the tree holds the entries of the head of the loaded registry
TreeUnchanged ==
    ManifestLines(args.tree) = ManifestLines(HeadOf(start.registry).files)

\* C13: a publish of the tree of the head under the version of the head,
\* its prompt passed and no file or upload failing, ends without error,
\* leaves the manifest of the version as it was and generates no patch;
\* the head may be the only record.  Stated for a tree of at least one
\* file.
C13_IdempotentRepublish ==
    (/\ PublishEnded
     /\ args.tree # <<>>
     /\ ~args.dry
     /\ outcome \notin {"declined", "IOError"}
     /\ RepublishesHead
     /\ args.version \in DOMAIN start.distManifest
     /\ TreeUnchanged) =>
        /\ outcome = "ok"
        /\ args.version \in DOMAIN distManifest
        /\ distManifest[args.version] = start.distManifest[args.version]
        /\ generated = {}

\* the patch loop of a publish is over; storage_registry holds the records
\* that precede the version being published
PatchLoopOver ==
    args.op = "publish" /\ pc \in {"blobs", "manifest", "latest"}

\* the patches of a new entry against the entries of one record
PatchesAgainst(rec, new) ==
    {[prev_version |-> rec.version, path |-> new.path,
      old_digest |-> old.digest, new_digest |-> new.digest] :
        old \in {o \in Entries(rec) :
                    o.path = new.path /\ o.digest # new.digest}}

\* the patches due: one for each of the last three records, each new entry
\* and each entry of the record with the path and another digest
PatchesDue ==
    LET prior == storage_registry.versions
        recent == {k \in 1..Len(prior) : k > Len(prior) - 3}
    IN  UNION {UNION {PatchesAgainst(prior[k], new) :
                         new \in {e \in Entries([files |-> files]) :
                                     e.is_new}} :
               k \in recent}

\* C14: the patches a publish generates are the patches due: none against
\* a record before the third preceding one, none for an entry that is not
\* new, none between equal digests.
C14_BoundedPatchWindow ==
    PatchLoopOver => generated = PatchesDue

C14_Witness ==
    /\ PatchLoopOver
    /\ Len(storage_registry.versions) > 3
    /\ generated # {}
    /\ \E new \in Entries([files |-> files]) :
          /\ new.is_new
          /\ PatchesAgainst(storage_registry.versions[1], new) # {}

\* the step handles one file of the tree: an entry is added to files
HandlesFile == Len(files') = Len(files) + 1
Handled == files'[Len(files')]

VersionsIn(file) == LoadRegistry(file).versions
Front(seq) == SubSeq(seq, 1, Len(seq) - 1)

\* C17: a publish or a removal of one version changes the versions of the
\* registry file only by one record added at the end, by the last record
\* taken away, or by the last record replaced by one of its version.
C17_AppendOnlyExceptHead ==
    [][(args.version # NoVersion
          /\ VersionsIn(registryFile') # VersionsIn(registryFile)) =>
          LET old == VersionsIn(registryFile)
              new == VersionsIn(registryFile')
          IN  \/ new # <<>> /\ Front(new) = old
              \/ old # <<>> /\ new = Front(old)
              \/ /\ old # <<>> /\ new # <<>>
                 /\ Front(new) = Front(old)
                 /\ new[Len(new)].version = old[Len(old)].version
                 /\ args.op = "publish"]_vars

C17_Witness ==
    /\ PublishEnded
    /\ outcome = "ok"
    /\ saves = 1
    /\ RepublishesHead
    /\ Len(start.registry.versions) > 1
    /\ Persisted.versions # start.registry.versions

\* C18: in the registry file, no path of files has an empty set of digests,
\* and the blob of every digest of files[path] is in the content store.
C18_ReferentialCleanliness ==
    \A path \in DOMAIN Persisted.files :
        /\ DOMAIN Persisted.files[path] # {}
        /\ \A digest \in DOMAIN Persisted.files[path] :
              TargetRelPath(path, digest) \in storeFiles

\* the manifest of the version, the blob of every new entry and every
\* patch generated are in the distributed namespace
Uploaded ==
    /\ args.version \in DOMAIN distManifest
    /\ distManifest[args.version] = ManifestLines(files)
    /\ \A e \in Entries([files |-> files]) :
          e.is_new => e.digest \in distFiles
    /\ \A g \in generated : <<g.old_digest, g.new_digest>> \in distPatch

\* C19: in a publish, a blob is uploaded when it is in the content store;
\* the latest pointer is uploaded when the manifest, the new blobs and the
\* patches are; the registry is saved when all of these and the latest
\* pointer are.
C19_PipelineOrdering ==
    [][(args.op = "publish" /\ ~args.dry) =>
          /\ \A d \in distFiles' \ distFiles :
                \E e \in Entries([files |-> files]) :
                    /\ e.digest = d
                    /\ TargetRelPath(e.path, d) \in storeFiles
          /\ (pc = "latest" /\ pc' = "save") => Uploaded
          /\ registryFile' # registryFile =>
                (Uploaded /\ distLatest = args.version)]_vars

C19_Witness ==
    /\ PublishEnded
    /\ ~args.dry
    /\ outcome = "ok"
    /\ saves = 1
    /\ generated # {}
    /\ distFiles # start.distFiles

\* C20: after an invocation that ran to its end, changed the head and left
\* a record in the registry, the latest pointer names the version of the
\* head, and the manifest of that version is in the distributed namespace.
C20_LatestNamesHead ==
    (/\ pc = "done"
     /\ outcome = "ok"
     /\ ~args.dry
     /\ args.version # NoVersion
     /\ Persisted.versions # <<>>
     /\ Persisted.versions # start.registry.versions) =>
        /\ distLatest = HeadOf(Persisted).version
        /\ distLatest \in DOMAIN distManifest

\* no two records of the registry file have the same version
UniqueVersions ==
    \A i, j \in 1..Len(Persisted.versions) :
        Persisted.versions[i].version = Persisted.versions[j].version
            => i = j

\* the store and the distributed namespace are as the invocation found them
DiskUnchanged ==
    /\ registryFile = start.registryFile
    /\ storeFiles = start.storeFiles
    /\ storePatches = start.storePatches
    /\ DistUnchanged

\* C21: from the empty registry on, the registry file never holds two
\* records of one version; and a publish of a version the registry holds,
\* not dry, its prompt passed and no file or upload failing, replaces the
\* head when the version is the head's, and otherwise stops with nothing
\* changed.
C21_VersionUniqueness ==
    /\ UniqueVersions
    /\ (/\ PublishEnded
        /\ ~args.dry
        /\ outcome \notin {"declined", "IOError"}
        /\ args.version \in VersionsOf(start.registry)) =>
           IF RepublishesHead
           THEN /\ outcome = "ok"
                /\ Persisted.versions =
                     Append(Front(start.registry.versions),
                            [version |-> args.version, files |-> files])
           ELSE /\ outcome = "exit"
                /\ DiskUnchanged

====
